---- MODULE Spec2Model ----
(***************************************************************************)
(* A model of hidapi-rs (src/src/lib.rs): the process-wide lazy            *)
(* initialisation guarded by the INIT_STATE mutex, the HidApi contexts     *)
(* with their device-list caches, the device descriptors, and the          *)
(* HidDevice handles with their report I/O and queries on top of the       *)
(* native hidapi library; and of the macOS backend                         *)
(* (src/src/macos_native.rs).                                              *)
(*                                                                         *)
(* The specifications share the variables and the actions:                 *)
(*   Spec        several threads constructing contexts concurrently, the   *)
(*               callers keeping one context at a time;                    *)
(*   SpecCtx     one thread building, refreshing and dropping several      *)
(*               contexts and opening devices through them;                *)
(*   SpecEnum    one thread enumerating native lists that may hold a       *)
(*               record with a null path;                                  *)
(*   SpecOpen    devices opened from the descriptors of a context;         *)
(*   SpecDevice  the lives of several device handles, starting from an     *)
(*               initialised process that holds one context;               *)
(*   SpecIo      the report I/O and the queries of one device handle,      *)
(*               with every length, native return value, buffer content    *)
(*               and native error message;                                 *)
(*   SpecMacos   the macOS backend: its manager slot and its conversion    *)
(*               of CFStrings.                                             *)
(***************************************************************************)
EXTENDS Integers, Sequences, FiniteSets, TLC

\* ------------------------------------------------------------------ bounds
NumThreads == 2
MaxCtx == 2
MaxHandles == 2
MaxDataLen == 2
MaxInits == 2
MaxStrLen == 3
MaxManagers == 2

Threads == 1..NumThreads
CtxIds == 1..MaxCtx
HandleIds == 1..MaxHandles

\* ------------------------------------------------------- native wide strings
\* A wchar_t pointer: null, or the code units found at the address, the
\* terminating zero included.
NULL == [null |-> TRUE, mem |-> <<>>]
WStr(units) == [null |-> FALSE, mem |-> units \o <<0>>]

\* char::from_u32(u as u32) is Some: a Unicode scalar value is at most 0x10FFFF
\* and no surrogate (0xD800..0xDFFF). A negative wchar_t u becomes u + 2^32 as
\* u32, which is at least 2^31 and so no scalar value.
from_u32(u) ==
    u >= 0 /\ u <= 1114111 /\ ~(u >= 55296 /\ u <= 57343)

WString(s) == [tag |-> "String", v |-> s]
WRaw(r) == [tag |-> "Raw", v |-> r]
WNone == [tag |-> "None", v |-> <<>>]

\* The loop of wchar_to_string over the units at `mem`, which hold a zero, by
\* the values of its variables when it ends: the loop stops at the first
\* zero, raw_vector has got every unit before it, invalid_char is set when
\* one of them is no scalar value, and char_vector has got the units before
\* the first such unit.
\* A loop that starts raw_vector at the first unit that is no scalar value.
wchar_scan_invalid_tail(mem) ==
    LET stop == CHOOSE n \in 1..Len(mem) :
                    mem[n] = 0 /\ \A i \in 1..(n - 1) : mem[i] # 0
        bad == {i \in 1..(stop - 1) : ~from_u32(mem[i])}
    IN IF bad = {} THEN WString(SubSeq(mem, 1, stop - 1))
       ELSE WRaw(SubSeq(mem, CHOOSE i \in bad : \A j \in bad : i <= j, stop - 1))

wchar_scan(mem) ==
    LET stop == CHOOSE n \in 1..Len(mem) :
                    mem[n] = 0 /\ \A i \in 1..(n - 1) : mem[i] # 0
        raw_vector == SubSeq(mem, 1, stop - 1)
        bad == {i \in 1..(stop - 1) : ~from_u32(mem[i])}
        invalid_char == bad # {}
        char_vector ==
            IF invalid_char
            THEN SubSeq(mem, 1, (CHOOSE i \in bad : \A j \in bad : i <= j) - 1)
            ELSE raw_vector
    IN IF ~invalid_char THEN WString(char_vector) ELSE WRaw(raw_vector)

wchar_to_string(wstr) ==
    IF wstr.null THEN WNone ELSE wchar_scan(wstr.mem)

\* ------------------------------------------------------------ native devices
\* The records hid_enumerate can return, one per device that may be plugged.
\* path_null: the record's path pointer is null (path is then meaningless).
NativeDevices ==
    { [path_null |-> FALSE, path |-> "/dev/x", vendor_id |-> 4660, product_id |-> 22136,
       serial_number |-> NULL, release_number |-> 256,
       manufacturer_string |-> WStr(<<65>>), product_string |-> WStr(<<55296, 66>>),
       usage_page |-> 1, usage |-> 6, interface_number |-> 0, bus_type |-> 1],
      [path_null |-> FALSE, path |-> "", vendor_id |-> 4660, product_id |-> 1,
       serial_number |-> WStr(<<65, 66, 67>>), release_number |-> 1,
       manufacturer_string |-> NULL, product_string |-> WStr(<<80>>),
       usage_page |-> 0, usage |-> 0, interface_number |-> -1, bus_type |-> 0] }

\* The native list in a fixed order.
RECURSIVE SetToSeq(_)
SetToSeq(S) ==
    IF S = {} THEN <<>>
    ELSE LET d == CHOOSE x \in S : \A y \in S : x.product_id >= y.product_id
         IN <<d>> \o SetToSeq(S \ {d})

hid_enumerate(plugged) == SetToSeq(plugged)

Ok(v) == [ok |-> TRUE, val |-> v]
Some(v) == [some |-> TRUE, v |-> v]
None == [some |-> FALSE, v |-> <<>>]
Err(kind, info) == [ok |-> FALSE, val |-> [kind |-> kind, info |-> info]]

\* The end of the process by a memory fault: no HidError, nothing is returned.
Killed == [ok |-> FALSE, val |-> [kind |-> "fault", info |-> <<>>]]

\* CStr::from_ptr on a null pointer is undefined: the read of address 0 kills
\* the process, or it finds some bytes there and takes them for the path.
NoRead == [fault |-> FALSE, str |-> ""]
NullPathReads == {[fault |-> TRUE, str |-> ""], NoRead, [fault |-> FALSE, str |-> "?"]}
\* The outcomes to try for the records `devs`.
PathReads(devs) == IF \E d \in devs : d.path_null THEN NullPathReads ELSE {NoRead}

\* ub: what the read through a null path pointer does.
conv_hid_device_info(src, ub) ==
    IF src.path_null /\ ub.fault THEN Killed ELSE
    Ok([path |-> IF src.path_null THEN ub.str ELSE src.path,
        vendor_id |-> src.vendor_id,
        product_id |-> src.product_id,
        serial_number |-> wchar_to_string(src.serial_number),
        release_number |-> src.release_number,
        manufacturer_string |-> wchar_to_string(src.manufacturer_string),
        product_string |-> wchar_to_string(src.product_string),
        usage_page |-> src.usage_page,
        usage |-> src.usage,
        interface_number |-> src.interface_number,
        bus_type |-> src.bus_type])

\* The walk of get_hid_device_info_vector over the native list from node i:
\* the first failing conversion ends the function with its error.
RECURSIVE walk_enumeration(_, _, _, _)
walk_enumeration(enumeration, i, device_vector, ub) ==
    IF i > Len(enumeration) THEN [result |-> Ok(device_vector), read |-> i - 1]
    ELSE LET c == conv_hid_device_info(enumeration[i], ub) IN
         IF ~c.ok THEN [result |-> c, read |-> i]
         ELSE walk_enumeration(enumeration, i + 1, Append(device_vector, c.val), ub)

\* A release that does not look whether the list is null.
free_enumeration_unchecked(enumeration, walked) ==
    IF walked.result.ok THEN <<"hid_free_enumeration">> ELSE <<>>

\* hid_free_enumeration is called after the loop, for a list that is not null.
free_enumeration(enumeration, walked) ==
    IF walked.result.ok /\ enumeration # <<>>
    THEN <<"hid_free_enumeration">> ELSE <<>>

\* result: the Result returned; native: the native calls made, in order;
\* listed: the number of records in the native list; trace: the native calls
\* and the reads of the list's records, in order.
get_hid_device_info_vector(plugged, ub) ==
    LET enumeration == hid_enumerate(plugged)
        w == walk_enumeration(enumeration, 1, <<>>, ub)
        free == free_enumeration(enumeration, w)
    IN [result |-> w.result,
        listed |-> Len(enumeration),
        native |-> <<"hid_enumerate">> \o free,
        trace |-> <<"hid_enumerate">> \o [i \in 1..w.read |-> "read"] \o free]

\* ------------------------------------------------------------------- state
VARIABLES
    INIT_STATE,     \* the value inside the INIT_STATE mutex
    lock,           \* the thread holding the INIT_STATE mutex, 0 when free
    poisoned,       \* the mutex's poison flag
    pc,             \* where each thread is inside new / new_without_enumerate
    req,            \* the construction each thread is running
    hid_init_ok,    \* how often the native hid_init has returned success
    plugged,        \* the devices plugged in now
    ctx,            \* the HidApi contexts alive
    hist,           \* per context: whether it has enumerated, and the devices
                    \* plugged when it last did
    handles,        \* the HidDevice handles ever made: none, live or dropped
    native_open,    \* the native device resources open in the native layer
    hid_close_calls,\* how often hid_close was called
    bad_close,      \* hid_close was called on a resource that is not open
    lastOp,         \* the operation that completed last, with its result
    HID_MANAGER,    \* macOS backend: the value inside the HID_MANAGER mutex
    hid_manager_poisoned, \* macOS backend: the poison flag of that mutex
    managers        \* macOS backend: the IOHIDManagers created so far, and
                    \* those of them not yet released

vars == <<INIT_STATE, lock, poisoned, pc, req, hid_init_ok, plugged, ctx, hist,
          handles, native_open, hid_close_calls, bad_close, lastOp,
          HID_MANAGER, hid_manager_poisoned, managers>>

initVars == <<INIT_STATE, lock, poisoned, pc, req, hid_init_ok>>
ctxVars == <<ctx, hist>>
devVars == <<handles, native_open, hid_close_calls, bad_close>>
macVars == <<HID_MANAGER, hid_manager_poisoned, managers>>

NotInit == [tag |-> "NotInit", enumerate |-> FALSE]
InitWith(e) == [tag |-> "Init", enumerate |-> e]

NoReq == [fn |-> "none", seen |-> NotInit]
NoCtx == [live |-> FALSE, device_list |-> <<>>]
NoHandle == [state |-> "none", _hid_device |-> 0, failed |-> FALSE, closed |-> <<>>]
NoHist == [done |-> FALSE, at |-> {}]
NoOp == [op |-> "none"]
NoInfo == [path |-> "", vendor_id |-> 0, product_id |-> 0, serial_number |-> WNone,
           release_number |-> 0, manufacturer_string |-> WNone,
           product_string |-> WNone, usage_page |-> 0, usage |-> 0,
           interface_number |-> 0, bus_type |-> 0]

do_enumerate(fn) == fn = "new"

\* ------------------------------------------------- lazy_init and constructors
\* A mutex that excludes nobody.
mutex_never_held == TRUE

\* INIT_STATE.lock() returns once no thread holds the guard.
mutex_free == lock = 0

\* A match that initialises again when the modes differ.
lazy_init_match_reinit(state, enumerate) ==
    IF state.tag = "NotInit" \/ state.enumerate # enumerate THEN "hid_init"
    ELSE "ok"

\* A match that never compares the modes.
lazy_init_match_any_mode(state, enumerate) ==
    IF state.tag = "NotInit" THEN "hid_init" ELSE "ok"

\* The match of lazy_init on the value inside the mutex.
lazy_init_match(state, enumerate) ==
    IF state.tag = "NotInit" THEN "hid_init"
    ELSE IF state.enumerate # enumerate THEN "panic"
    ELSE "ok"

\* A lazy_init that records the mode before it looks at what hid_init returned.
lazy_init_store_early(state, enumerate, r) == InitWith(enumerate)

\* The value lazy_init leaves in the mutex once the native hid_init returned r.
lazy_init_store(state, enumerate, r) ==
    IF r = -1 THEN state ELSE InitWith(enumerate)

\* The slot among `slots` the caller keeps a new context in; 0: every slot is
\* taken and the caller drops the context at once.
CtxSlots(slots) ==
    LET free == {c \in slots : ~ctx[c].live} IN IF free = {} THEN {0} ELSE free

\* The context HidApi::new builds from the enumeration result.
HidApi_new_ctx(device_vector) == [live |-> TRUE, device_list |-> device_vector]
\* A new_without_enumerate that scans the bus like new.
HidApi_new_without_enumerate_scans ==
    [live |-> TRUE,
     device_list |-> get_hid_device_info_vector(plugged, NoRead).result.val]

\* The context HidApi::new_without_enumerate builds.
HidApi_new_without_enumerate_ctx == [live |-> TRUE, device_list |-> <<>>]

\* The rest of new / new_without_enumerate of thread t once lazy_init ended
\* with `outcome` ("ok", "err" or "panic"), having called hid_init or not.
Complete(t, outcome, called, slots) ==
    \E ub \in PathReads(plugged) :
    LET fn == req[t].fn
        e == IF outcome = "ok" /\ fn = "new"
             THEN get_hid_device_info_vector(plugged, ub)
             ELSE [result |-> Ok(<<>>), listed |-> 0, native |-> <<>>,
                   trace |-> <<>>]
        built == outcome = "ok" /\ e.result.ok
        result == IF outcome = "panic" THEN "panic"
                  ELSE IF outcome = "err" THEN "InitializationError"
                  ELSE IF ~e.result.ok THEN e.result.val.kind
                  ELSE "ok"
    IN /\ pc' = [pc EXCEPT ![t] = "idle"]
       /\ req' = [req EXCEPT ![t] = NoReq]
       /\ \E c \in (IF built THEN CtxSlots(slots) ELSE {0}) :
             /\ ctx' = IF c = 0 THEN ctx
                       ELSE [ctx EXCEPT ![c] =
                               IF fn = "new" THEN HidApi_new_ctx(e.result.val)
                               ELSE HidApi_new_without_enumerate_ctx]
             /\ hist' = IF c = 0 THEN hist
                        ELSE [hist EXCEPT ![c] =
                                IF fn = "new"
                                THEN [done |-> TRUE, at |-> plugged]
                                ELSE NoHist]
             /\ lastOp' = [op |-> fn, seen |-> req[t].seen,
                           hid_init |-> called, native |-> e.native,
                           listed |-> e.listed, trace |-> e.trace,
                           result |-> result, ctx |-> c]
       /\ UNCHANGED <<macVars, plugged, devVars>>

\* A thread calls HidApi::new() or HidApi::new_without_enumerate().
Call(t, fn) ==
    /\ pc[t] = "idle"
    /\ pc' = [pc EXCEPT ![t] = "lock"]
    /\ req' = [req EXCEPT ![t] = [fn |-> fn, seen |-> INIT_STATE]]
    /\ UNCHANGED <<INIT_STATE, lock, poisoned, hid_init_ok, macVars, plugged, ctxVars,
                   devVars, lastOp>>

\* INIT_STATE.lock().unwrap() and the match: the thread gets the mutex, panics
\* when it is poisoned, and otherwise enters hid_init, panics on a mode
\* mismatch (poisoning the mutex it holds) or returns Ok.
lazy_init_lock(t, slots) ==
    /\ pc[t] = "lock"
    /\ mutex_free
    /\ LET m == lazy_init_match(INIT_STATE, do_enumerate(req[t].fn)) IN
       IF poisoned
       THEN /\ Complete(t, "panic", FALSE, slots)
            /\ UNCHANGED <<INIT_STATE, lock, poisoned, hid_init_ok>>
       ELSE IF m = "hid_init"
       THEN /\ hid_init_ok < MaxInits
            /\ lock' = t
            /\ pc' = [pc EXCEPT ![t] = "hid_init"]
            /\ UNCHANGED <<INIT_STATE, poisoned, req, hid_init_ok, macVars, plugged,
                           ctxVars, devVars, lastOp>>
       ELSE IF m = "panic"
       THEN /\ Complete(t, "panic", FALSE, slots)
            /\ poisoned' = TRUE
            /\ UNCHANGED <<INIT_STATE, lock, hid_init_ok>>
       ELSE /\ Complete(t, "ok", FALSE, slots)
            /\ UNCHANGED <<INIT_STATE, lock, poisoned, hid_init_ok>>

\* The native hid_init returns r to the thread inside it; the guard is dropped.
hid_init_return(t, r, slots) ==
    /\ pc[t] = "hid_init"
    /\ INIT_STATE' = lazy_init_store(INIT_STATE, do_enumerate(req[t].fn), r)
    /\ hid_init_ok' = IF r = -1 THEN hid_init_ok ELSE hid_init_ok + 1
    /\ lock' = 0
    /\ Complete(t, IF r = -1 THEN "err" ELSE "ok", TRUE, slots)
    /\ UNCHANGED poisoned

\* ------------------------------------------------------------ context methods
\* A refresh that keeps the old list.
refresh_devices_list_stale(old, e) == old

\* The device_list refresh_devices leaves in the context.
refresh_devices_list(old, e) == IF e.result.ok THEN e.result.val ELSE old

refresh_devices(c) ==
    /\ ctx[c].live
    /\ \E ub \in PathReads(plugged) :
       LET e == get_hid_device_info_vector(plugged, ub) IN
        /\ ctx' = [ctx EXCEPT ![c].device_list =
                      refresh_devices_list(ctx[c].device_list, e)]
        /\ hist' = [hist EXCEPT ![c] =
                      IF e.result.ok THEN [done |-> TRUE, at |-> plugged]
                      ELSE hist[c]]
        /\ lastOp' = [op |-> "refresh_devices", ctx |-> c, native |-> e.native,
                      listed |-> e.listed, trace |-> e.trace,
                      result |-> IF e.result.ok THEN Ok(<<>>) ELSE e.result]
    /\ UNCHANGED <<initVars, macVars, plugged, devVars>>

device_list(c) ==
    /\ ctx[c].live
    /\ lastOp' = [op |-> "device_list", ctx |-> c, native |-> <<>>,
                  result |-> Ok(ctx[c].device_list)]
    /\ UNCHANGED <<initVars, macVars, plugged, ctxVars, devVars>>

\* The caller lets a context go out of scope.
drop_HidApi(c) ==
    /\ ctx[c].live
    /\ ctx' = [ctx EXCEPT ![c] = NoCtx]
    /\ hist' = [hist EXCEPT ![c] = NoHist]
    /\ lastOp' = [op |-> "drop_HidApi", ctx |-> c, native |-> <<>>,
                  result |-> Ok(<<>>)]
    /\ UNCHANGED <<initVars, macVars, plugged, devVars>>

\* A device is plugged in or pulled out.
Replug(d) ==
    /\ plugged' = IF d \in plugged THEN plugged \ {d} ELSE plugged \cup {d}
    /\ UNCHANGED <<initVars, macVars, ctxVars, devVars, lastOp>>

\* ------------------------------------------------------------ native errors
\* What hid_error can return: no message, an empty one, a message, and a
\* message that is not valid Unicode.
ErrStrings == {NULL, WStr(<<>>), WStr(<<69>>), WStr(<<55296>>)}

\* check_error of HidApi and of HidDevice: Ok(HidApiError{message}) when the
\* message converts to a String, Err(HidApiErrorEmpty) otherwise.
check_error(werr) ==
    LET w == wchar_to_string(werr) IN
    IF w.tag = "String" THEN Ok([kind |-> "HidApiError", info |-> w.v])
    ELSE Err("HidApiErrorEmpty", <<>>)

\* match check_error() { Ok(err) => Err(err), Err(e) => Err(e) }
to_err(ce) == [ok |-> FALSE, val |-> ce.val]

\* A usize: wrap * 2^W + v, with W the pointer width of the target.
usize_of(n) == [wrap |-> 0, v |-> n]
\* `res as usize` of an i32: sign-extended, so a negative res becomes 2^W + res.
as_usize(res) == [wrap |-> IF res < 0 THEN 1 ELSE 0, v |-> res]

\* A check_size that takes every negative return for an error.
check_size_negative(res, werr) ==
    IF res < 0
    THEN [result |-> to_err(check_error(werr)), native |-> <<"hid_error">>]
    ELSE [result |-> Ok(as_usize(res)), native |-> <<>>]

\* result: what check_size returns; native: the native calls it makes.
check_size(res, werr) ==
    IF res = -1
    THEN [result |-> to_err(check_error(werr)), native |-> <<"hid_error">>]
    ELSE [result |-> Ok(as_usize(res)), native |-> <<>>]

I32_MAX == 2147483647
I32_MIN == -I32_MAX - 1
Lens == 0..MaxDataLen
\* The values a native call given `len` bytes is tried with.
NativeRets(len) == {I32_MIN, -2, -1, 0, len - 1, len, len + 1, I32_MAX}

\* ------------------------------------------------------------ opening devices
Addrs == 1..MaxHandles
FreeAddrs == Addrs \ native_open
FreeHandles(hslots) == {h \in hslots : handles[h].state = "none"}

\* What the native open can return: null (0), or the address of a new
\* resource when a plugged device matches.
NativeOpenRets(matches, hslots) ==
    {0} \cup (IF matches /\ FreeAddrs # {} /\ FreeHandles(hslots) # {}
              THEN {CHOOSE a \in FreeAddrs : \A b \in FreeAddrs : a <= b}
              ELSE {})

\* The tail shared by open, open_serial and open_path: no handle and the last
\* error for a null device, a HidDevice owning the device otherwise.
open_result(device, werr) ==
    IF device = 0
    THEN [handle |-> FALSE, result |-> to_err(check_error(werr)),
          native |-> <<"hid_error">>]
    ELSE [handle |-> TRUE, result |-> Ok(device), native |-> <<>>]

\* by: the descriptor whose open_device made the call, NoInfo for a call of
\* the user.
OpenWith(c, by, op, call, arg, matches, hslots, errs) ==
    /\ ctx[c].live
    /\ \E device \in NativeOpenRets(matches, hslots) :
       \E werr \in (IF device = 0 THEN errs ELSE {NULL}) :
         LET o == open_result(device, werr)
             h == IF FreeHandles(hslots) = {} THEN 0
                  ELSE CHOOSE x \in FreeHandles(hslots) :
                         \A y \in FreeHandles(hslots) : x <= y
         IN /\ o.handle => h # 0
            /\ handles' = IF o.handle
                          THEN [handles EXCEPT ![h] =
                                  [state |-> "live", _hid_device |-> device,
                                   failed |-> FALSE, closed |-> <<>>]]
                          ELSE handles
            /\ native_open' = IF device = 0 THEN native_open
                              ELSE native_open \cup {device}
            /\ lastOp' = [op |-> op, ctx |-> c, by |-> by, arg |-> arg,
                          ret |-> device, werr |-> werr,
                          native |-> <<call>> \o o.native,
                          result |-> IF o.handle THEN Ok(h) ELSE o.result]
    /\ UNCHANGED <<initVars, macVars, plugged, ctxVars, hid_close_calls, bad_close>>

open(c, vid, pid, hslots, errs) ==
    OpenWith(c, NoInfo, "open", "hid_open", <<vid, pid>>,
             \E d \in plugged : d.vendor_id = vid /\ d.product_id = pid,
             hslots, errs)

\* sn: the serial number as a str, handed to hid_open as wide characters.
open_serial_by(by, c, vid, pid, sn, hslots, errs) ==
    OpenWith(c, by, "open_serial", "hid_open", <<vid, pid, sn>>,
             \E d \in plugged : /\ d.vendor_id = vid /\ d.product_id = pid
                                 /\ d.serial_number = WStr(sn),
             hslots, errs)

open_serial(c, vid, pid, sn, hslots, errs) ==
    open_serial_by(NoInfo, c, vid, pid, sn, hslots, errs)

open_path_by(by, c, device_path, hslots, errs) ==
    OpenWith(c, by, "open_path", "hid_open_path", <<device_path>>,
             \E d \in plugged : ~d.path_null /\ d.path = device_path,
             hslots, errs)

open_path(c, device_path, hslots, errs) ==
    open_path_by(NoInfo, c, device_path, hslots, errs)

\* A serial_number() that also hands out the units of a Raw serial number.
serial_number_lossy(info) ==
    IF info.serial_number.tag \in {"String", "Raw"}
    THEN Some(info.serial_number.v) ELSE None

\* DeviceInfo::serial_number(): the text of a String serial number.
serial_number(info) ==
    IF info.serial_number.tag = "String" THEN Some(info.serial_number.v) ELSE None

\* An open_device that prefers the serial number to the path.
open_device_serial_first(info, c, hslots, errs) ==
    IF serial_number(info).some
    THEN open_serial_by(info, c, info.vendor_id, info.product_id,
                        serial_number(info).v, hslots, errs)
    ELSE open_path_by(info, c, info.path, hslots, errs)

\* DeviceInfo::open_device on the descriptor `info` with the context c.
open_device(info, c, hslots, errs) ==
    IF info.path # ""
    THEN open_path_by(info, c, info.path, hslots, errs)
    ELSE IF serial_number(info).some
    THEN open_serial_by(info, c, info.vendor_id, info.product_id,
                        serial_number(info).v, hslots, errs)
    ELSE /\ ctx[c].live
         /\ lastOp' = [op |-> "open_device", ctx |-> c, by |-> info,
                       arg |-> <<>>, ret |-> 0, werr |-> NULL, native |-> <<>>,
                       result |-> Err("OpenHidDeviceWithDeviceInfoError", info)]
         /\ UNCHANGED <<initVars, macVars, plugged, ctxVars, devVars>>

\* ------------------------------------------------------- HidDevice operations
\* A write without the check for empty data.
write_result_unchecked(len, res, werr) ==
    LET cs == check_size(res, werr) IN
    [result |-> cs.result, native |-> <<"hid_write">> \o cs.native]

write_result(len, res, werr) ==
    IF len = 0
    THEN [result |-> Err("InvalidZeroSizeData", <<>>), native |-> <<>>]
    ELSE LET cs == check_size(res, werr) IN
         [result |-> cs.result, native |-> <<"hid_write">> \o cs.native]

\* A send_feature_report that takes every count the native layer reports
\* for a complete send.
send_feature_report_result_any_count(len, res, werr) ==
    IF len = 0
    THEN [result |-> Err("InvalidZeroSizeData", <<>>), native |-> <<>>]
    ELSE LET cs == check_size(res, werr)
             native == <<"hid_send_feature_report">> \o cs.native
         IN IF ~cs.result.ok THEN [result |-> cs.result, native |-> native]
            ELSE [result |-> Ok(<<>>), native |-> native]

send_feature_report_result(len, res, werr) ==
    IF len = 0
    THEN [result |-> Err("InvalidZeroSizeData", <<>>), native |-> <<>>]
    ELSE LET cs == check_size(res, werr)
             native == <<"hid_send_feature_report">> \o cs.native
         IN IF ~cs.result.ok THEN [result |-> cs.result, native |-> native]
            ELSE IF cs.result.val # usize_of(len)
            THEN [result |-> Err("IncompleteSendError",
                                 [sent |-> cs.result.val, all |-> usize_of(len)]),
                  native |-> native]
            ELSE [result |-> Ok(<<>>), native |-> native]

\* read, read_timeout and get_feature_report: the native call, then check_size.
read_result(call, res, werr) ==
    LET cs == check_size(res, werr) IN
    [result |-> cs.result, native |-> <<call>> \o cs.native]

set_blocking_mode_result(blocking, res) ==
    [result |-> IF res = -1
                THEN Err("SetBlockingModeError",
                         IF blocking THEN "blocking" ELSE "not blocking")
                ELSE Ok(<<>>),
     native |-> <<"hid_set_nonblocking">>]

\* An operation on the live handle h ended with `out`; `res` is what the
\* native call returned, when there was one.
HandleOp(h, op, len, res, werr, out) ==
    /\ handles[h].state = "live"
    /\ handles' = [handles EXCEPT ![h].failed = @ \/ ~out.result.ok]
    /\ lastOp' = [op |-> op, h |-> h, len |-> len, ret |-> res, werr |-> werr,
                  native |-> out.native, result |-> out.result]
    /\ UNCHANGED <<initVars, macVars, plugged, ctxVars, native_open, hid_close_calls,
                   bad_close>>

\* The operations of a handle: `res` is what the native call returns and
\* `werr` what hid_error returns after it.
write(h, len, res, werr) ==
    HandleOp(h, "write", len, res, werr, write_result(len, res, werr))

send_feature_report(h, len, res, werr) ==
    HandleOp(h, "send_feature_report", len, res, werr,
             send_feature_report_result(len, res, werr))

read(h, len, res, werr) ==
    HandleOp(h, "read", len, res, werr, read_result("hid_read", res, werr))

read_timeout(h, len, res, werr) ==
    HandleOp(h, "read_timeout", len, res, werr,
             read_result("hid_read_timeout", res, werr))

get_feature_report(h, len, res, werr) ==
    HandleOp(h, "get_feature_report", len, res, werr,
             read_result("hid_get_feature_report", res, werr))

set_blocking_mode(h, blocking, res) ==
    HandleOp(h, "set_blocking_mode", 0, res, NULL,
             set_blocking_mode_result(blocking, res))

\* ------------------------------------------------------------ string queries
STRING_BUF_LEN == 128

\* A panic of the method: nothing is returned, the handle stays alive.
Panicked == [ok |-> FALSE, val |-> [kind |-> "panic", info |-> <<>>]]

\* Reading past the end of an allocation is undefined: the read kills the
\* process, or it goes on through what lies behind until it finds a zero.
PastEnds ==
    {[fault |-> TRUE, mem |-> <<>>], [fault |-> FALSE, mem |-> <<0>>],
     [fault |-> FALSE, mem |-> <<66, 0>>]}

Terminated(buf) == \E i \in 1..Len(buf) : buf[i] = 0

\* wchar_to_string on the address of an allocation that holds `buf`: the scan
\* knows no length and stops at the first zero only.
\* oob: a unit outside the allocation was read.
wchar_to_string_at(buf, past) ==
    IF Terminated(buf)
    THEN [oob |-> FALSE, result |-> Ok(wchar_scan(buf))]
    ELSE IF past.fault THEN [oob |-> TRUE, result |-> Killed]
    ELSE [oob |-> TRUE,
          result |-> Ok(wchar_scan(buf \o past.mem))]

\* impl Into<Option<String>> for WcharString
into_Option(w) == IF w.tag = "String" THEN Some(w.v) ELSE None

\* The four string queries: the native call fills buf (STRING_BUF_LEN units,
\* zero before the call) and returns res; buf[..res] panics when res is more
\* than the buffer holds; wchar_to_string then scans from the buffer's start.
get_string_result(call, buf, res, werr, past) ==
    LET cs == check_size(res, werr)
        native == <<call>> \o cs.native
    IN IF ~cs.result.ok
       THEN [result |-> cs.result, native |-> native, oob |-> FALSE]
       ELSE IF cs.result.val.wrap # 0 \/ cs.result.val.v > STRING_BUF_LEN
       THEN [result |-> Panicked, native |-> native, oob |-> FALSE]
       ELSE LET w == wchar_to_string_at(buf, past) IN
            [result |-> IF w.result.ok THEN Ok(into_Option(w.result.val))
                        ELSE w.result,
             native |-> native, oob |-> w.oob]

get_string(h, op, call, buf, res, werr, past) ==
    /\ handles[h].state = "live"
    /\ LET out == get_string_result(call, buf, res, werr, past) IN
        /\ handles' = [handles EXCEPT ![h].failed = @ \/ ~out.result.ok]
        /\ lastOp' = [op |-> op, h |-> h, len |-> STRING_BUF_LEN, ret |-> res,
                      werr |-> werr, buf |-> buf, oob |-> out.oob,
                      native |-> out.native, result |-> out.result]
    /\ UNCHANGED <<initVars, macVars, plugged, ctxVars, native_open, hid_close_calls,
                   bad_close>>

get_manufacturer_string(h, buf, res, werr, past) ==
    get_string(h, "get_manufacturer_string", "hid_get_manufacturer_string",
               buf, res, werr, past)

get_product_string(h, buf, res, werr, past) ==
    get_string(h, "get_product_string", "hid_get_product_string",
               buf, res, werr, past)

get_serial_number_string(h, buf, res, werr, past) ==
    get_string(h, "get_serial_number_string", "hid_get_serial_number_string",
               buf, res, werr, past)

get_indexed_string(h, index, buf, res, werr, past) ==
    get_string(h, "get_indexed_string", "hid_get_indexed_string",
               buf, res, werr, past)

\* raw_device: what hid_get_device_info returns, null or a record.
NullInfo == [null |-> TRUE]
RawInfo(r) == [null |-> FALSE, rec |-> r]

get_device_info_result(raw_device, werr, ub) ==
    IF raw_device.null
    THEN [result |-> to_err(check_error(werr)),
          native |-> <<"hid_get_device_info", "hid_error">>]
    ELSE [result |-> conv_hid_device_info(raw_device.rec, ub),
          native |-> <<"hid_get_device_info">>]

get_device_info(h, raw_device, werr, ub) ==
    /\ handles[h].state = "live"
    /\ LET out == get_device_info_result(raw_device, werr, ub) IN
        /\ handles' = [handles EXCEPT ![h].failed = @ \/ ~out.result.ok]
        /\ lastOp' = [op |-> "get_device_info", h |-> h, ret |-> raw_device,
                      werr |-> werr, native |-> out.native,
                      result |-> out.result]
    /\ UNCHANGED <<initVars, macVars, plugged, ctxVars, native_open, hid_close_calls,
                   bad_close>>

\* A drop that closes only a handle no operation failed on.
drop_calls_unless_failed(hd) == IF hd.failed THEN <<>> ELSE <<hd._hid_device>>

\* Drop for HidDevice: the pointers hid_close is called with.
drop_calls(hd) == <<hd._hid_device>>

SeqRange(q) == {q[i] : i \in 1..Len(q)}

\* The caller lets the handle go out of scope.
drop_HidDevice(h) ==
    /\ handles[h].state = "live"
    /\ LET calls == drop_calls(handles[h]) IN
        /\ handles' = [handles EXCEPT ![h].state = "dropped", ![h].closed = calls]
        /\ native_open' = native_open \ SeqRange(calls)
        /\ hid_close_calls' = hid_close_calls + Len(calls)
        /\ bad_close' = (bad_close \/ Len(calls) > 1
                            \/ \E a \in SeqRange(calls) : a \notin native_open)
        /\ lastOp' = [op |-> "drop_HidDevice", h |-> h,
                      native |-> [i \in 1..Len(calls) |-> "hid_close"],
                      result |-> Ok(<<>>)]
    /\ UNCHANGED <<initVars, macVars, plugged, ctxVars>>

\* ------------------------------------------------------------ macOS backend
\* The backend of src/src/macos_native.rs. Each of its functions holds the
\* HID_MANAGER mutex from its start to its end.
InitMacos ==
    /\ HID_MANAGER = None
    /\ hid_manager_poisoned = FALSE
    /\ managers = [created |-> 0, live |-> {}]

\* What hid_init leaves in the slot it found empty, having made the manager
\* mgr: the guard is never written, and mgr is dropped when hid_init returns.
hid_init_slot(slot, mgr) == slot

\* The managers alive once the owned value `mgr` goes out of scope with `slot`
\* in the mutex: Drop for HidManager releases it unless it was moved there.
after_scope(live, slot, mgr) ==
    IF slot.some /\ slot.v = mgr THEN live ELSE live \ {mgr}

\* The body of hid_init with the mutex free of poison; create: what
\* IOHIDManagerCreate returns, 0 (null) or the new manager.
hid_init_body(create) ==
    IF HID_MANAGER.some THEN [result |-> Ok(<<>>), slot |-> HID_MANAGER,
                              managers |-> managers, made |-> 0]
    ELSE IF create = 0
    THEN [result |-> Err("InitializationError", <<>>), slot |-> HID_MANAGER,
          managers |-> managers, made |-> 0]
    ELSE LET slot == hid_init_slot(HID_MANAGER, create) IN
         [result |-> Ok(<<>>), slot |-> slot,
          managers |-> [created |-> managers.created + 1,
                        live |-> after_scope(managers.live \cup {create},
                                             slot, create)],
          made |-> create]

\* What IOHIDManagerCreate can return: null, or a manager not seen before.
Creates == {0} \cup (IF managers.created < MaxManagers
                     THEN {managers.created + 1} ELSE {})

macos_hid_init(create) ==
    /\ IF hid_manager_poisoned
       THEN /\ lastOp' = [op |-> "macos_hid_init", made |-> 0,
                          result |-> Panicked]
            /\ UNCHANGED macVars
       ELSE LET b == hid_init_body(create) IN
            /\ HID_MANAGER' = b.slot
            /\ managers' = b.managers
            /\ lastOp' = [op |-> "macos_hid_init", made |-> b.made,
                          result |-> b.result]
            /\ UNCHANGED hid_manager_poisoned
    /\ UNCHANGED <<initVars, plugged, ctxVars, devVars>>

\* hid_exit: the manager is taken out of the slot, closed and dropped.
macos_hid_exit ==
    /\ IF hid_manager_poisoned
       THEN /\ lastOp' = [op |-> "macos_hid_exit", made |-> 0,
                          result |-> Panicked]
            /\ UNCHANGED macVars
       ELSE /\ HID_MANAGER' = None
            /\ managers' = IF HID_MANAGER.some
                           THEN [managers EXCEPT !.live = @ \ {HID_MANAGER.v}]
                           ELSE managers
            /\ lastOp' = [op |-> "macos_hid_exit", made |-> 0,
                          result |-> Ok(<<>>)]
            /\ UNCHANGED hid_manager_poisoned
    /\ UNCHANGED <<initVars, plugged, ctxVars, devVars>>

\* hid_enumerate: hid_init()?, then the manager is expected in the slot (a
\* panic with the guard held poisons the mutex); ndevices: the size of the
\* set IOHIDManagerCopyDevices returns, each device ending in todo!().
macos_hid_enumerate(create, ndevices) ==
    /\ IF hid_manager_poisoned
       THEN /\ lastOp' = [op |-> "macos_hid_enumerate", made |-> 0,
                          result |-> Panicked]
            /\ UNCHANGED macVars
       ELSE LET b == hid_init_body(create) IN
            /\ HID_MANAGER' = b.slot
            /\ managers' = b.managers
            /\ hid_manager_poisoned' =
                  (b.result.ok /\ (~b.slot.some \/ ndevices > 0))
            /\ lastOp' = [op |-> "macos_hid_enumerate", made |-> b.made,
                          result |-> IF ~b.result.ok THEN b.result
                                     ELSE IF ~b.slot.some \/ ndevices > 0
                                     THEN Panicked
                                     ELSE Ok(<<>>)]
    /\ UNCHANGED <<initVars, plugged, ctxVars, devVars>>

\* vec![0 as wchar_t, 256]: the vector of the two elements 0 and 256.
cf_buf == <<0, 256>>

\* CFStringGetBytes: the first `length` code points of s are written to the
\* start of buf, as far as max_units units take them.
CFStringGetBytes(s, length, buf, max_units) ==
    LET n == IF length < max_units THEN length ELSE max_units IN
    [i \in 1..Len(buf) |-> IF i <= n THEN s[i] ELSE buf[i]]

\* impl From<CFStringRef> for WcharString; s: the code points of the string,
\* cptr: CFStringGetCStringPtr returns a pointer to its UTF-8 text,
\* past: what lies behind the vector's allocation.
\* buf: the vector handed to wchar_to_string.
WcharString_from(s, cptr, past) ==
    IF cptr THEN [result |-> Ok(WString(s)), buf |-> <<>>, oob |-> FALSE]
    ELSE LET len == Len(cf_buf) - 1
             slen == Len(s)
             buf == CFStringGetBytes(s, IF slen < len THEN slen ELSE len,
                                     cf_buf, len)
             w == wchar_to_string_at(buf, past)
         IN [result |-> w.result, buf |-> buf, oob |-> w.oob]

\* Device::string_property: the property is missing (null) or a CFString.
string_property(s_null, s, cptr, past) ==
    /\ lastOp' = [op |-> "string_property", null |-> s_null, s |-> s,
                  cptr |-> cptr,
                  buf |-> IF s_null THEN <<>>
                          ELSE WcharString_from(s, cptr, past).buf,
                  oob |-> IF s_null THEN FALSE
                          ELSE WcharString_from(s, cptr, past).oob,
                  result |-> IF s_null THEN Ok(WNone)
                             ELSE WcharString_from(s, cptr, past).result]
    /\ UNCHANGED <<initVars, macVars, plugged, ctxVars, devVars>>

\* ----------------------------------------------------------- specifications
Start(plugs) ==
    /\ INIT_STATE = NotInit
    /\ lock = 0
    /\ poisoned = FALSE
    /\ pc = [t \in Threads |-> "idle"]
    /\ req = [t \in Threads |-> NoReq]
    /\ hid_init_ok = 0
    /\ plugged \in plugs
    /\ ctx = [c \in CtxIds |-> NoCtx]
    /\ hist = [c \in CtxIds |-> NoHist]
    /\ handles = [h \in HandleIds |-> NoHandle]
    /\ native_open = {}
    /\ hid_close_calls = 0
    /\ bad_close = FALSE
    /\ lastOp = NoOp
    /\ InitMacos

Init == Start(SUBSET NativeDevices)

Fns == {"new", "new_without_enumerate"}
Device(pid) == CHOOSE d \in NativeDevices : d.product_id = pid
VidPids == {<<d.vendor_id, d.product_id>> : d \in NativeDevices}
Serials == {<<65, 66, 67>>}
Paths == {d.path : d \in NativeDevices}
\* The native returns and error messages a specification tries: the native
\* return is looked at only when the native call is made, the message only
\* when that returned -1.
Rets(len, needs_data, rets) == IF needs_data /\ len = 0 THEN {0} ELSE rets
Errs(res, errs) == IF res = -1 THEN errs ELSE {NULL}

\* The process has been killed by a memory fault: nothing happens any more.
Dead ==
    /\ lastOp.op # "none"
    /\ IF lastOp.op \in Fns THEN lastOp.result = "fault"
       ELSE lastOp.result = Killed

\* Wide strings of at most n units: a letter, a surrogate, the number after
\* the last scalar value, and a negative unit.
WUnits == {65, 55296, 1114112, -1}
RECURSIVE WSeqs(_, _)
WSeqs(units, n) ==
    IF n = 0 THEN {<<>>}
    ELSE WSeqs(units, n - 1)
         \cup {Append(q, u) : q \in WSeqs(units, n - 1), u \in units}
WStrs(n) == {NULL} \cup {WStr(q) : q \in WSeqs(WUnits, n)}

\* The records hid_get_device_info is tried with: every wide string as the
\* serial number, the short ones in the other two string fields, with and
\* without a path, and a null path.
RawInfos ==
    LET base == Device(22136) IN
    {[base EXCEPT !.serial_number = w] : w \in WStrs(MaxStrLen)}
    \cup {[base EXCEPT !.manufacturer_string = w] : w \in WStrs(1)}
    \cup {[base EXCEPT !.product_string = w, !.path = ""] : w \in WStrs(1)}
    \cup {[base EXCEPT !.path_null = TRUE]}

\* The contents the native call can leave in the buffer of a string query.
Filled(units) ==
    [i \in 1..STRING_BUF_LEN |-> IF i <= Len(units) THEN units[i] ELSE 0]
Bufs ==
    {Filled(<<>>), Filled(<<65, 66>>), Filled(<<65, 55296>>),
     Filled([i \in 1..(STRING_BUF_LEN - 1) |-> 65]),
     Filled([i \in 1..STRING_BUF_LEN |-> 65])}
\* What lies behind the buffer matters only when the scan gets there.
Pasts(buf, res) ==
    IF ~Terminated(buf) /\ res >= 0 /\ res <= STRING_BUF_LEN THEN PastEnds
    ELSE {[fault |-> FALSE, mem |-> <<0>>]}

\* Threads constructing contexts concurrently; the callers keep one context.
Next ==
    \/ \E t \in Threads, fn \in Fns : Call(t, fn)
    \/ \E t \in Threads : lazy_init_lock(t, {1})
    \/ \E t \in Threads, r \in {0, -1} : hid_init_return(t, r, {1})
    \/ refresh_devices(1)
    \/ device_list(1)
    \/ drop_HidApi(1)
    \/ \E d \in NativeDevices : Replug(d)

Spec == Init /\ [][Next]_vars

\* One thread with several contexts, opening devices through them; one device
\* stays plugged and the other comes and goes.
InitCtx == Init /\ plugged \in {{Device(1)}, NativeDevices}

NextCtx ==
    \/ \E fn \in Fns : Call(1, fn)
    \/ lazy_init_lock(1, CtxIds)
    \/ \E r \in {0, -1} : hid_init_return(1, r, CtxIds)
    \/ \E c \in CtxIds : refresh_devices(c)
    \/ \E c \in CtxIds : device_list(c)
    \/ \E c \in CtxIds : drop_HidApi(c)
    \/ Replug(Device(22136))
    \/ \E c \in CtxIds : open(c, 4660, 22136, {1}, {NULL})
    \/ \E c \in CtxIds : open_serial(c, 4660, 1, <<65, 66, 67>>, {1}, {NULL})
    \/ \E c \in CtxIds : open_path(c, "/dev/x", {1}, {NULL})
    \/ drop_HidDevice(1)

SpecCtx == InitCtx /\ [][NextCtx]_vars

\* The process after one successful HidApi::new() with `devs` plugged.
InitAfterNew(devs) ==
    /\ INIT_STATE = InitWith(TRUE)
    /\ lock = 0
    /\ poisoned = FALSE
    /\ pc = [t \in Threads |-> "idle"]
    /\ req = [t \in Threads |-> NoReq]
    /\ hid_init_ok = 1
    /\ plugged = devs
    /\ ctx = [c \in CtxIds |->
                IF c = 1
                THEN HidApi_new_ctx(
                        get_hid_device_info_vector(plugged, NoRead).result.val)
                ELSE NoCtx]
    /\ hist = [c \in CtxIds |->
                 IF c = 1 THEN [done |-> TRUE, at |-> plugged] ELSE NoHist]
    /\ handles = [h \in HandleIds |-> NoHandle]
    /\ native_open = {}
    /\ hid_close_calls = 0
    /\ bad_close = FALSE
    /\ lastOp = [op |-> "new", seen |-> NotInit, hid_init |-> TRUE,
                 native |-> get_hid_device_info_vector(plugged, NoRead).native,
                 listed |-> get_hid_device_info_vector(plugged, NoRead).listed,
                 trace |-> get_hid_device_info_vector(plugged, NoRead).trace,
                 result |-> "ok", ctx |-> 1]
    /\ InitMacos

InitDevice == InitAfterNew(NativeDevices)

\* The lives of several handles: opened, used with and without failures, dropped.
NextDevice ==
    \/ \E vp \in VidPids : open(1, vp[1], vp[2], HandleIds, {NULL})
    \/ \E vp \in VidPids, sn \in Serials :
          open_serial(1, vp[1], vp[2], sn, HandleIds, {NULL})
    \/ \E path \in Paths : open_path(1, path, HandleIds, {NULL})
    \/ \E h \in HandleIds, len \in {0, 1} :
          \E res \in Rets(len, TRUE, {-1, len}) : write(h, len, res, NULL)
    \/ \E h \in HandleIds, len \in {0, 1} :
          \E res \in Rets(len, TRUE, {-1, 0, len}) :
            send_feature_report(h, len, res, NULL)
    \/ \E h \in HandleIds, res \in {-1, 1} : read(h, 1, res, NULL)
    \/ \E h \in HandleIds, res \in {-1, 1} : read_timeout(h, 1, res, NULL)
    \/ \E h \in HandleIds, res \in {-1, 1} : get_feature_report(h, 1, res, NULL)
    \/ \E h \in HandleIds, res \in {-1, 0} : set_blocking_mode(h, TRUE, res)
    \/ \E h \in HandleIds : drop_HidDevice(h)

SpecDevice == InitDevice /\ [][NextDevice]_vars

\* One handle, with every length, native return and native error message.
IoStep ==
    \/ \E path \in Paths : open_path(1, path, {1}, ErrStrings)
    \/ \E len \in Lens : \E res \in Rets(len, TRUE, NativeRets(len)) :
          \E werr \in Errs(res, ErrStrings) : write(1, len, res, werr)
    \/ \E len \in Lens : \E res \in Rets(len, TRUE, NativeRets(len)) :
          \E werr \in Errs(res, ErrStrings) : send_feature_report(1, len, res, werr)
    \/ \E len \in Lens : \E res \in NativeRets(len) :
          \E werr \in Errs(res, ErrStrings) : read(1, len, res, werr)
    \/ \E len \in Lens : \E res \in NativeRets(len) :
          \E werr \in Errs(res, ErrStrings) : read_timeout(1, len, res, werr)
    \/ \E len \in Lens : \E res \in NativeRets(len) :
          \E werr \in Errs(res, ErrStrings) : get_feature_report(1, len, res, werr)
    \/ \E blocking \in BOOLEAN, res \in {0, -1} :
          set_blocking_mode(1, blocking, res)
    \/ drop_HidDevice(1)

\* The queries of one handle, with every buffer content, native return value
\* and native error message.
QueryStep ==
    \/ \E buf \in Bufs, res \in NativeRets(STRING_BUF_LEN) :
       \E werr \in Errs(res, ErrStrings), past \in Pasts(buf, res) :
          get_manufacturer_string(1, buf, res, werr, past)
    \/ \E buf \in Bufs, res \in NativeRets(STRING_BUF_LEN) :
       \E werr \in Errs(res, ErrStrings), past \in Pasts(buf, res) :
          get_product_string(1, buf, res, werr, past)
    \/ \E buf \in Bufs, res \in NativeRets(STRING_BUF_LEN) :
       \E werr \in Errs(res, ErrStrings), past \in Pasts(buf, res) :
          get_serial_number_string(1, buf, res, werr, past)
    \/ \E buf \in Bufs, res \in NativeRets(STRING_BUF_LEN) :
       \E werr \in Errs(res, ErrStrings), past \in Pasts(buf, res) :
          get_indexed_string(1, 1, buf, res, werr, past)
    \/ \E werr \in ErrStrings : get_device_info(1, NullInfo, werr, NoRead)
    \/ \E r \in RawInfos : \E ub \in PathReads({r}) :
          get_device_info(1, RawInfo(r), NULL, ub)

\* The native list with a record whose path pointer is null.
EnumDevices ==
    NativeDevices \cup {[Device(22136) EXCEPT !.path_null = TRUE, !.product_id = 7]}

InitEnum == Start(SUBSET EnumDevices)

\* One thread enumerating through new() and refresh_devices() while devices
\* come and go, until a fault ends the process.
NextEnum ==
    /\ ~Dead
    /\ \/ \E fn \in Fns : Call(1, fn)
       \/ lazy_init_lock(1, {1})
       \/ \E r \in {0, -1} : hid_init_return(1, r, {1})
       \/ refresh_devices(1)
       \/ device_list(1)
       \/ drop_HidApi(1)
       \/ \E d \in EnumDevices : Replug(d)

SpecEnum == InitEnum /\ [][NextEnum]_vars

\* The devices with and without a path, each with no serial number, with
\* one that is text and with one that is not.
OpenDevices ==
    LET a == Device(22136)
        b == Device(1)
    IN NativeDevices \cup
       {[a EXCEPT !.serial_number = WStr(<<65, 66, 67>>), !.product_id = 22137],
        [a EXCEPT !.serial_number = WStr(<<55296>>), !.product_id = 22138],
        [b EXCEPT !.serial_number = NULL, !.product_id = 2],
        [b EXCEPT !.serial_number = WStr(<<55296>>), !.product_id = 3]}

InitOpen == InitAfterNew(OpenDevices)

\* Devices opened from the descriptors of the context's cache, while a device
\* comes and goes.
NextOpen ==
    \/ \E i \in 1..Len(ctx[1].device_list) :
          open_device(ctx[1].device_list[i], 1, HandleIds, {NULL, WStr(<<69>>)})
    \/ \E h \in HandleIds : drop_HidDevice(h)
    \/ refresh_devices(1)
    \/ Replug(Device(1))

SpecOpen == InitOpen /\ [][NextOpen]_vars

\* The CFStrings tried: up to MaxStrLen code points, each a letter or the
\* euro sign.
CFStrings == WSeqs({65, 8364}, MaxStrLen)

\* The macOS backend: initialisation, enumeration and exit in any order, and
\* the conversion of string properties.
NextMacos ==
    /\ ~Dead
    /\ \/ \E create \in Creates : macos_hid_init(create)
       \/ macos_hid_exit
       \/ \E create \in Creates, ndevices \in {0, 1} :
             macos_hid_enumerate(create, ndevices)
       \/ \E s \in CFStrings, cptr \in BOOLEAN, past \in PastEnds :
             string_property(FALSE, s, cptr, past)
       \/ string_property(TRUE, <<>>, FALSE, [fault |-> FALSE, mem |-> <<0>>])

SpecMacos == Start({{}}) /\ [][NextMacos]_vars

NextIo ==
    /\ ~Dead
    /\ \/ IoStep
       \/ QueryStep

SpecIo == InitDevice /\ [][NextIo]_vars

\* ------------------------------------------------------------------- claims
InitOps == {"new", "new_without_enumerate"}
\* The construction that completed last asked for the mode the process was in
\* when it was called, or for the other one.
SameModeDone ==
    /\ lastOp.op \in InitOps
    /\ lastOp.seen = InitWith(do_enumerate(lastOp.op))
OtherModeDone ==
    /\ lastOp.op \in InitOps
    /\ lastOp.seen = InitWith(~do_enumerate(lastOp.op))

\* C1: the init state changes only from NotInit to Init{enumerate}; once it is
\* Init, no step changes it, whatever constructions follow.
C1_InitStateOnlyAdvances ==
    [][/\ INIT_STATE.tag = "Init" => INIT_STATE' = INIT_STATE
       /\ INIT_STATE' # INIT_STATE =>
            INIT_STATE = NotInit /\ INIT_STATE'.tag = "Init"]_vars

\* C1 witness: the process is initialised and constructions of both modes have
\* been called since: the last one was of the other mode and one of the same
\* mode is waiting for the mutex.
C1_Witness ==
    /\ INIT_STATE.tag = "Init"
    /\ OtherModeDone
    /\ \E t \in Threads :
         /\ pc[t] = "lock"
         /\ req[t].seen = INIT_STATE
         /\ do_enumerate(req[t].fn) = INIT_STATE.enumerate

\* C2: a construction called when the process was already initialised with the
\* other mode ends in a panic: it returns nothing, it has not called the
\* native hid_init, and the recorded mode is still the one it found.
C2_MismatchPanics ==
    OtherModeDone =>
        /\ lastOp.result = "panic"
        /\ ~lastOp.hid_init
        /\ lastOp.ctx = 0
        /\ INIT_STATE = lastOp.seen

\* C2 witness: a mismatched construction has completed, for either order of
\* the two constructors.
C2_Witness ==
    /\ OtherModeDone
    /\ lastOp.op = "new"
    /\ INIT_STATE = InitWith(FALSE)

\* C3: a construction called when the process was already initialised with the
\* same mode returns success and has not called the native hid_init, whatever
\* constructions came in between.
C3_SameModeSucceeds ==
    SameModeDone => lastOp.result = "ok" /\ ~lastOp.hid_init

\* C4: two threads are never inside the native hid_init at the same time, and
\* the native hid_init returns success at most once.
C4_InitMutualExclusion ==
    /\ Cardinality({t \in Threads : pc[t] = "hid_init"}) <= 1
    /\ hid_init_ok <= 1

\* C4 witness: one thread is inside hid_init while another waits for the mutex
\* with a construction it called before the process was initialised.
C4_Witness ==
    \E t, u \in Threads :
        /\ pc[t] = "hid_init"
        /\ pc[u] = "lock"
        /\ req[u].seen = NotInit

OpenOps == {"open", "open_serial", "open_path"}
Dropped == {h \in HandleIds : handles[h].state = "dropped"}
Live == {h \in HandleIds : handles[h].state = "live"}

\* C5: the handles destroyed so far have caused exactly one hid_close call
\* each, on the handle's own native resource, also after failed operations;
\* no other hid_close call was made, the native resources still open are
\* those of the live handles, and a failed open has made no handle.
C5_OneCloseEachHandle ==
    /\ hid_close_calls = Cardinality(Dropped)
    /\ \A h \in HandleIds :
         handles[h].closed =
            IF h \in Dropped THEN <<handles[h]._hid_device>> ELSE <<>>
    /\ ~bad_close
    /\ native_open = {handles[h]._hid_device : h \in Live}
    /\ \A h \in Live \cup Dropped : handles[h]._hid_device # 0
    /\ lastOp.op \in OpenOps /\ lastOp.ret = 0 =>
         /\ ~lastOp.result.ok
         /\ lastOp.native = <<IF lastOp.op = "open_path" THEN "hid_open_path"
                               ELSE "hid_open", "hid_error">>

\* C5 witness: every handle has been opened and destroyed, one of them after
\* an operation on it failed and one without a failure.
C5_Witness ==
    /\ Dropped = HandleIds
    /\ \E h \in Dropped : handles[h].failed
    /\ \E h \in Dropped : ~handles[h].failed

\* C6: the cache of a context that has enumerated equals the enumeration of
\* the devices plugged at its construction by new() or at its last successful
\* refresh_devices(), whichever is later; and no step changes the cache of a
\* context that stays alive but a refresh_devices() on that context.
C6_CacheIsLastEnumeration ==
    /\ [](\A c \in CtxIds :
            ctx[c].live /\ hist[c].done =>
                ctx[c].device_list =
                    get_hid_device_info_vector(hist[c].at, NoRead).result.val)
    /\ [][\A c \in CtxIds :
            ctx[c].live /\ ctx'[c].live
                /\ ctx'[c].device_list # ctx[c].device_list =>
                    lastOp'.op = "refresh_devices" /\ lastOp'.ctx = c]_vars

\* C6 witness: two contexts hold different caches, one of them no longer that
\* of the devices plugged now, and a device has just been opened.
C6_Witness ==
    /\ lastOp.op \in OpenOps
    /\ lastOp.result.ok
    /\ \E c, d \in CtxIds :
         /\ ctx[c].live /\ hist[c].done
         /\ ctx[d].live /\ hist[d].done
         /\ ctx[c].device_list # ctx[d].device_list
         /\ hist[c].at # plugged
         /\ lastOp.ctx = c

\* C7: a new_without_enumerate() that returned a context made no native
\* enumeration call and left the cache empty, and the cache of a context that
\* has not enumerated since (no refresh_devices on it) is empty.
C7_NoEnumerateStartsEmpty ==
    /\ lastOp.op = "new_without_enumerate" /\ lastOp.result = "ok" =>
         /\ lastOp.native = <<>>
         /\ lastOp.ctx # 0 => ctx[lastOp.ctx].device_list = <<>>
    /\ \A c \in CtxIds :
         ctx[c].live /\ ~hist[c].done => ctx[c].device_list = <<>>

\* C7 witness: a context built by new_without_enumerate is still empty while
\* devices are plugged and another context has just been refreshed.
C7_Witness ==
    /\ plugged # {}
    /\ lastOp.op = "refresh_devices"
    /\ \E c \in CtxIds :
         /\ ctx[c].live /\ ~hist[c].done
         /\ lastOp.ctx # c
         /\ ctx[lastOp.ctx].device_list # <<>>

\* The last operation was a write / send_feature_report of non-empty data.
WriteDone == lastOp.op = "write" /\ lastOp.len > 0
SendDone == lastOp.op = "send_feature_report" /\ lastOp.len > 0

\* C8: write and send_feature_report of empty data fail with
\* InvalidZeroSizeData and make no native call, the last-error query included.
C8_EmptyDataRejected ==
    lastOp.op \in {"write", "send_feature_report"} /\ lastOp.len = 0 =>
        /\ ~lastOp.result.ok
        /\ lastOp.result.val.kind = "InvalidZeroSizeData"
        /\ lastOp.native = <<>>

\* C8 witness: a write of empty data has completed on a live handle.
C8_Witness ==
    /\ lastOp.op = "write"
    /\ lastOp.len = 0
    /\ handles[lastOp.h].state = "live"

C10_Original ==
    WriteDone =>
        /\ ~lastOp.result.ok <=> lastOp.ret = -1
        /\ lastOp.ret # -1 => lastOp.result.val = usize_of(lastOp.ret)

\* C10 amended: write of non-empty data fails exactly when hid_write returns
\* -1; for r >= 0 it returns Ok(r), and for r < -1 it returns Ok(2^W + r),
\* the sign-extended r read as an unsigned number of the pointer width W.
C10_WriteCount ==
    WriteDone =>
        /\ ~lastOp.result.ok <=> lastOp.ret = -1
        /\ lastOp.ret >= 0 => lastOp.result.val = [wrap |-> 0, v |-> lastOp.ret]
        /\ lastOp.ret < -1 => lastOp.result.val = [wrap |-> 1, v |-> lastOp.ret]

\* C10 witness: hid_write returned the smallest 32-bit value and write
\* returned Ok.
C10_Witness ==
    /\ WriteDone
    /\ lastOp.ret = I32_MIN
    /\ lastOp.result.ok

StringOps == {"get_manufacturer_string", "get_product_string",
              "get_serial_number_string", "get_indexed_string"}
SizeOps == {"read", "write", "read_timeout", "get_feature_report",
            "send_feature_report"} \cup StringOps
\* The last operation made its native call and saw it fail.
NativeFailure ==
    \/ lastOp.op \in OpenOps /\ lastOp.ret = 0
    \/ lastOp.op \in SizeOps /\ lastOp.native # <<>> /\ lastOp.ret = -1
    \/ lastOp.op = "get_device_info" /\ lastOp.ret.null
\* The units of a wide string before its terminator, and whether they are a
\* message: some text, all of it Unicode scalar values.
UnitsOf(w) == SubSeq(w.mem, 1, Len(w.mem) - 1)
IsScalar(u) == (0 <= u /\ u < 55296) \/ (57343 < u /\ u <= 1114111)
MessageAvailable(w) ==
    /\ ~w.null
    /\ UnitsOf(w) # <<>>
    /\ \A i \in 1..Len(UnitsOf(w)) : IsScalar(UnitsOf(w)[i])

\* C11: an operation that sees its native call fail asks the backend for its
\* last error and returns HidApiError with that message when there is one and
\* HidApiErrorEmpty when there is none; it never returns an error whose message
\* is empty.
C11_LastErrorReported ==
    NativeFailure =>
        /\ ~lastOp.result.ok
        /\ lastOp.native[Len(lastOp.native)] = "hid_error"
        /\ IF MessageAvailable(lastOp.werr)
           THEN /\ lastOp.result.val.kind = "HidApiError"
                /\ lastOp.result.val.info = UnitsOf(lastOp.werr)
           ELSE lastOp.result.val.kind = "HidApiErrorEmpty"
        /\ ~(lastOp.result.val.kind = "HidApiError"
                /\ lastOp.result.val.info = <<>>)

StringFields == {"serial_number", "manufacturer_string", "product_string"}
AllScalar(units) == \A i \in 1..Len(units) : IsScalar(units[i])
\* The last operation turned a native record into a descriptor.
Converted == lastOp.op = "get_device_info" /\ ~lastOp.ret.null /\ lastOp.result.ok

\* C12: a null wide string becomes None; a string whose units before the
\* terminator are all Unicode scalar values becomes String with exactly those
\* units as its text; a string with a unit that is none becomes Raw with all
\* the units before the terminator.
C12_WcharToString ==
    Converted =>
        \A f \in StringFields :
            LET w == lastOp.ret.rec[f]
                r == lastOp.result.val[f]
            IN /\ w.null => r = WNone
               /\ ~w.null /\ AllScalar(UnitsOf(w)) => r = WString(UnitsOf(w))
               /\ ~w.null /\ ~AllScalar(UnitsOf(w)) => r = WRaw(UnitsOf(w))

\* C12 witness: a serial number with a valid unit, then an invalid one, then a
\* valid one has been converted to Raw.
C12_Witness ==
    /\ Converted
    /\ lastOp.ret.rec.serial_number = WStr(<<65, 55296, 65>>)
    /\ lastOp.result.val.serial_number.tag = "Raw"

\* The last operation was an open_device on a descriptor with / without a path.
OpenDeviceDone == lastOp.op \in OpenOps \cup {"open_device"} /\ lastOp.by # NoInfo
WithPath == OpenDeviceDone /\ lastOp.by.path # ""
WithoutPath == OpenDeviceDone /\ lastOp.by.path = ""

\* C13: open_device on a descriptor with a non-empty path opens through
\* open_path with that path and makes no serial-based open (no hid_open call),
\* whatever the serial number is and also when the path open fails.
C13_PathFirst ==
    WithPath =>
        /\ lastOp.op = "open_path"
        /\ lastOp.arg = <<lastOp.by.path>>
        /\ lastOp.native[1] = "hid_open_path"
        /\ \A i \in 1..Len(lastOp.native) : lastOp.native[i] # "hid_open"

\* C13 witness: the path open of a descriptor whose serial number is text
\* has failed.
C13_Witness ==
    /\ WithPath
    /\ lastOp.by.serial_number.tag = "String"
    /\ lastOp.ret = 0
    /\ ~lastOp.result.ok

\* C14: open_device on a descriptor with an empty path opens through
\* open_serial with the descriptor's vendor id, product id and serial text
\* exactly when the serial number is text; otherwise it fails with
\* OpenHidDeviceWithDeviceInfoError carrying the descriptor and makes no
\* native call.
C14_SerialOrError ==
    WithoutPath =>
        IF lastOp.by.serial_number.tag = "String"
        THEN /\ lastOp.op = "open_serial"
             /\ lastOp.arg = <<lastOp.by.vendor_id, lastOp.by.product_id,
                               lastOp.by.serial_number.v>>
             /\ lastOp.native[1] = "hid_open"
        ELSE /\ lastOp.op = "open_device"
             /\ lastOp.result =
                    Err("OpenHidDeviceWithDeviceInfoError", lastOp.by)
             /\ lastOp.native = <<>>

\* C14 witness: open_device has failed on a descriptor without a path whose
\* serial number is Raw, while a handle opened before is alive.
C14_Witness ==
    /\ WithoutPath
    /\ lastOp.by.serial_number.tag = "Raw"
    /\ lastOp.op = "open_device"
    /\ \E h \in Live : TRUE

\* C15: the conversion of a native record fails with an error and yields no
\* descriptor when the record's path pointer is null, and yields a descriptor
\* for every record with a path, whatever its three strings are.
C15_NullPathIsAnError ==
    lastOp.op = "get_device_info" /\ ~lastOp.ret.null =>
        IF lastOp.ret.rec.path_null
        THEN ~lastOp.result.ok /\ lastOp.result # Killed
        ELSE lastOp.result.ok

\* C16: a string query whose native call did not return the error value
\* returns a result, reads no code unit outside its buffer of STRING_BUF_LEN
\* units, and returns a text of at most STRING_BUF_LEN code units, whatever
\* the native call left in the buffer.
C16_StringQueryBounded ==
    lastOp.op \in StringOps /\ lastOp.ret # -1 =>
        /\ lastOp.result.ok
        /\ ~lastOp.oob
        /\ lastOp.result.val.some => Len(lastOp.result.val.v) <= STRING_BUF_LEN

\* C17: when the native hid_init fails, the construction returns
\* InitializationError, the init state is still NotInit and the mutex is free
\* and not poisoned; and whenever the init state is NotInit, a construction of
\* either mode that gets the mutex calls the native hid_init.
C17_FailedInitCanBeRetried ==
    [][\A t \in Threads :
         /\ pc[t] = "hid_init" /\ pc'[t] = "idle" /\ hid_init_ok' = hid_init_ok =>
              /\ lastOp'.op = req[t].fn
              /\ lastOp'.result = "InitializationError"
              /\ lastOp'.ctx = 0
              /\ INIT_STATE' = NotInit
              /\ lock' = 0
              /\ ~poisoned'
         /\ pc[t] = "lock" /\ pc'[t] # "lock" /\ INIT_STATE = NotInit =>
              /\ pc'[t] = "hid_init"
              /\ lock' = t]_vars

\* C17 witness: a new() has failed in hid_init, and a new_without_enumerate()
\* called after that failure is inside hid_init now.
C17_Witness ==
    /\ lastOp.op = "new"
    /\ lastOp.result = "InitializationError"
    /\ INIT_STATE = NotInit
    /\ \E t \in Threads :
         /\ pc[t] = "hid_init"
         /\ req[t].fn = "new_without_enumerate"

\* The last operation ran get_hid_device_info_vector, and it returned.
Enumerated ==
    /\ lastOp.op \in {"new", "refresh_devices"}
    /\ lastOp.trace # <<>>
    /\ ~Dead

C19_ManagerKept ==
    /\ lastOp.op = "macos_hid_init" /\ lastOp.result.ok =>
         /\ HID_MANAGER.some
         /\ HID_MANAGER.v \in managers.live
         /\ managers.created = 1
    /\ lastOp.op = "macos_hid_enumerate" => lastOp.result # Panicked
    /\ Cardinality(managers.live) <= 1

\* C20: on the fallback path of the CFString conversion the vector handed to
\* wchar_to_string holds the first min(length, 256) code points of the string
\* and a zero after them, the scan reads nothing outside the vector, and the
\* result is the text of those code points.
C20_FallbackTerminated ==
    lastOp.op = "string_property" /\ ~lastOp.null /\ ~lastOp.cptr =>
        LET n == IF Len(lastOp.s) < 256 THEN Len(lastOp.s) ELSE 256 IN
        /\ Len(lastOp.buf) > n
        /\ SubSeq(lastOp.buf, 1, n) = SubSeq(lastOp.s, 1, n)
        /\ lastOp.buf[n + 1] = 0
        /\ ~lastOp.oob
        /\ lastOp.result = Ok(WString(SubSeq(lastOp.s, 1, n)))

====
